---------------------------- MODULE Spec2Model ----------------------------
(***************************************************************************)
(* A model of ccase (src/src/main.rs): the command-line front end that     *)
(* collects arguments and standard input, has them parsed and validated,   *)
(* and converts every input string with a convert_case Converter.          *)
(*                                                                         *)
(* Strings are sequences of one-character strings.  An optional value      *)
(* (Rust Option<T>) is a sequence of length 0 (None) or 1 (Some(v)).       *)
(* The argument parser built by ccase::build_app and the convert_case      *)
(* crate are not part of src/; they are modelled from the specification    *)
(* (sections 3, 4, 6, 7) and from the expectations of the tests in         *)
(* main.rs.                                                                *)
(***************************************************************************)
EXTENDS Integers, Sequences, FiniteSets, TLC

VARIABLES argv, stdinTty, stdinData, pc, args, matches, inputs, idx,
          conv, words, result, stdout, stderr, exit

vars == <<argv, stdinTty, stdinData, pc, args, matches, inputs, idx,
          conv, words, result, stdout, stderr, exit>>

(***************************************************************************)
(* Bounds of the model.                                                    *)
(***************************************************************************)
\* longest exhaustively enumerated input string
MaxLen == 3

(***************************************************************************)
(* String literals used by the invocations and the claims.                 *)
(***************************************************************************)
F_t == <<"-", "t">>
F_to == <<"-", "-", "t", "o">>
F_f == <<"-", "f">>
F_from == <<"-", "-", "f", "r", "o", "m">>
F_b == <<"-", "b">>
F_boundaries == <<"-", "-", "b", "o", "u", "n", "d", "a", "r", "i", "e", "s">>
F_p == <<"-", "p">>
F_pattern == <<"-", "-", "p", "a", "t", "t", "e", "r", "n">>
F_d == <<"-", "d">>
F_delimeter == <<"-", "-", "d", "e", "l", "i", "m", "e", "t", "e", "r">>
PROG == <<"c", "c", "a", "s", "e">>
V_snake == <<"s", "n", "a", "k", "e">>
V_SNAKE == <<"S", "N", "A", "K", "E">>
V_SnAkE == <<"S", "n", "A", "k", "E">>
V_kebab == <<"k", "e", "b", "a", "b">>
V_KEBab == <<"K", "E", "B", "a", "b">>
V_KEBAB == <<"K", "E", "B", "A", "B">>
V_pascal == <<"p", "a", "s", "c", "a", "l">>
V_Pascal == <<"P", "a", "s", "c", "a", "l">>
V_lower == <<"l", "o", "w", "e", "r">>
V_SNEK == <<"S", "N", "E", "K">>
V_SENT == <<"S", "E", "N", "T">>
V_capital == <<"c", "a", "p", "i", "t", "a", "l">>
V_Sentence == <<"S", "e", "n", "t", "e", "n", "c", "e">>
V_sentence == <<"s", "e", "n", "t", "e", "n", "c", "e">>
V_aA == <<"a", "A">>
V_hyphen == <<"-">>
V_underscore == <<"_">>
V_dot == <<".">>
S_myVarName == <<"m", "y", "V", "a", "r", "N", "a", "m", "e">>
S_anotherMultiWordToken == <<"a", "n", "o", "t", "h", "e", "r", "M", "u", "l", "t", "i", "W", "o", "r", "d", "T", "o", "k", "e", "n">>
S_my_Var_Name_sp == <<"m", "y", " ", "V", "a", "r", " ", "N", "a", "m", "e">>
S_my_var_hy_name == <<"m", "y", "_", "v", "a", "r", "-", "n", "a", "m", "e">>
S_myVar_hy_name == <<"m", "y", "V", "a", "r", "-", "n", "a", "m", "e">>
S_my_sp_Var_hy_name == <<"m", "y", " ", "V", "a", "r", "-", "n", "a", "m", "e">>
S_MY_VAR_NAME == <<"M", "Y", "_", "V", "A", "R", "_", "N", "A", "M", "E">>
S_myvarname == <<"m", "y", "v", "a", "r", "n", "a", "m", "e">>
S_my_hy_varName == <<"m", "y", "-", "v", "a", "r", "N", "a", "m", "e">>
S_myVar_Name_Longer == <<"m", "y", "V", "a", "r", "-", "N", "a", "m", "e", "-", "L", "o", "n", "g", "e", "r">>
S_HTTPServer == <<"H", "T", "T", "P", "S", "e", "r", "v", "e", "r">>
S_delimRuns == <<"m", "y", "_", " ", "-", "V", "a", "r", "-", "-", "N", "a", "m", "e">>
O_my_var_name == <<"m", "y", "_", "v", "a", "r", "_", "n", "a", "m", "e">>
O_my_hy_var_hy_name == <<"m", "y", "-", "v", "a", "r", "-", "n", "a", "m", "e">>
O_MyVarName == <<"M", "y", "V", "a", "r", "N", "a", "m", "e">>
O_MyVar_hy_name == <<"M", "y", "V", "a", "r", "-", "n", "a", "m", "e">>
O_Myvarname == <<"M", "y", "v", "a", "r", "n", "a", "m", "e">>
O_My_dot_var_dot_name == <<"M", "y", ".", "v", "a", "r", ".", "n", "a", "m", "e">>
O_my_varname == <<"m", "y", "_", "v", "a", "r", "n", "a", "m", "e">>
O_my_var_hy_name_hy_longer == <<"m", "y", "_", "v", "a", "r", "-", "n", "a", "m", "e", "-", "l", "o", "n", "g", "e", "r">>
O_myvar_name_longer == <<"m", "y", "v", "a", "r", "_", "n", "a", "m", "e", "_", "l", "o", "n", "g", "e", "r">>
O_http_server == <<"h", "t", "t", "p", "_", "s", "e", "r", "v", "e", "r">>
O_another_multi_word_token == <<"a", "n", "o", "t", "h", "e", "r", "_", "m", "u", "l", "t", "i", "_", "w", "o", "r", "d", "_", "t", "o", "k", "e", "n">>
O_AnotherMultiWordToken == <<"A", "n", "o", "t", "h", "e", "r", "M", "u", "l", "t", "i", "W", "o", "r", "d", "T", "o", "k", "e", "n">>
W_my == <<"m", "y">>
W_Var == <<"V", "a", "r">>
W_Name == <<"N", "a", "m", "e">>
W_HTTP == <<"H", "T", "T", "P">>
W_Server == <<"S", "e", "r", "v", "e", "r">>

Cases ==
  << [id |-> "snake", name |-> <<"s", "n", "a", "k", "e">>, pattern |-> "Lower", delim |-> <<"_">>],
     [id |-> "constant", name |-> <<"c", "o", "n", "s", "t", "a", "n", "t">>, pattern |-> "Upper", delim |-> <<"_">>],
     [id |-> "upper-snake", name |-> <<"u", "p", "p", "e", "r", "-", "s", "n", "a", "k", "e">>, pattern |-> "Upper", delim |-> <<"_">>],
     [id |-> "kebab", name |-> <<"k", "e", "b", "a", "b">>, pattern |-> "Lower", delim |-> <<"-">>],
     [id |-> "cobol", name |-> <<"c", "o", "b", "o", "l">>, pattern |-> "Upper", delim |-> <<"-">>],
     [id |-> "upper-kebab", name |-> <<"u", "p", "p", "e", "r", "-", "k", "e", "b", "a", "b">>, pattern |-> "Upper", delim |-> <<"-">>],
     [id |-> "pascal", name |-> <<"p", "a", "s", "c", "a", "l">>, pattern |-> "Capital", delim |-> <<>>],
     [id |-> "camel", name |-> <<"c", "a", "m", "e", "l">>, pattern |-> "Camel", delim |-> <<>>],
     [id |-> "lower", name |-> <<"l", "o", "w", "e", "r">>, pattern |-> "Lower", delim |-> <<" ">>],
     [id |-> "upper", name |-> <<"u", "p", "p", "e", "r">>, pattern |-> "Upper", delim |-> <<" ">>],
     [id |-> "title", name |-> <<"t", "i", "t", "l", "e">>, pattern |-> "Capital", delim |-> <<" ">>],
     [id |-> "sentence", name |-> <<"s", "e", "n", "t", "e", "n", "c", "e">>, pattern |-> "Sentence", delim |-> <<" ">>],
     [id |-> "train", name |-> <<"t", "r", "a", "i", "n">>, pattern |-> "Toggle", delim |-> <<"-">>],
     [id |-> "flat", name |-> <<"f", "l", "a", "t">>, pattern |-> "Lower", delim |-> <<>>],
     [id |-> "alternating", name |-> <<"a", "l", "t", "e", "r", "n", "a", "t", "i", "n", "g">>, pattern |-> "Alternating", delim |-> <<" ">>] >>
Patterns ==
  << [id |-> "Lower", name |-> <<"l", "o", "w", "e", "r">>],
     [id |-> "Upper", name |-> <<"u", "p", "p", "e", "r">>],
     [id |-> "Capital", name |-> <<"c", "a", "p", "i", "t", "a", "l">>],
     [id |-> "Sentence", name |-> <<"s", "e", "n", "t", "e", "n", "c", "e">>],
     [id |-> "Camel", name |-> <<"c", "a", "m", "e", "l">>],
     [id |-> "Toggle", name |-> <<"t", "o", "g", "g", "l", "e">>],
     [id |-> "Alternating", name |-> <<"a", "l", "t", "e", "r", "n", "a", "t", "i", "n", "g">>] >>
LowerSeq == <<"a", "b", "c", "d", "e", "f", "g", "h", "i", "j", "k", "l", "m", "n", "o", "p", "q", "r", "s", "t", "u", "v", "w", "x", "y", "z">>
UpperSeq == <<"A", "B", "C", "D", "E", "F", "G", "H", "I", "J", "K", "L", "M", "N", "O", "P", "Q", "R", "S", "T", "U", "V", "W", "X", "Y", "Z">>
DigitSeq == <<"0", "1", "2", "3", "4", "5", "6", "7", "8", "9">>

(***************************************************************************)
(* Characters and strings.                                                 *)
(***************************************************************************)
LowerSet == {LowerSeq[i] : i \in DOMAIN LowerSeq}
UpperSet == {UpperSeq[i] : i \in DOMAIN UpperSeq}
DigitSet == {DigitSeq[i] : i \in DOMAIN DigitSeq}

\* the delimiter characters of the Underscore, Hyphen and Space boundaries
DelimSet == {"_", "-", " "}

UpperOf == [c \in LowerSet |-> UpperSeq[CHOOSE i \in DOMAIN LowerSeq : LowerSeq[i] = c]]
LowerOf == [c \in UpperSet |-> LowerSeq[CHOOSE i \in DOMAIN UpperSeq : UpperSeq[i] = c]]

IsUpper(c) == c \in UpperSet
IsLower(c) == c \in LowerSet
IsDigit(c) == c \in DigitSet

ToUpperChar(c) == IF c \in LowerSet THEN UpperOf[c] ELSE c
ToLowerChar(c) == IF c \in UpperSet THEN LowerOf[c] ELSE c

ToUpperStr(s) == [i \in DOMAIN s |-> ToUpperChar(s[i])]
ToLowerStr(s) == [i \in DOMAIN s |-> ToLowerChar(s[i])]

RECURSIVE Flatten(_)
Flatten(ss) == IF ss = <<>> THEN <<>> ELSE Head(ss) \o Flatten(Tail(ss))

RECURSIVE Join(_, _)
Join(ss, d) ==
  IF ss = <<>> THEN <<>>
  ELSE IF Len(ss) = 1 THEN ss[1]
  ELSE ss[1] \o d \o Join(Tail(ss), d)

Count(c, s) == Cardinality({i \in DOMAIN s : s[i] = c})

RECURSIVE StringsUpTo(_, _)
StringsUpTo(A, n) ==
  IF n = 0 THEN {<<>>}
  ELSE LET shorter == StringsUpTo(A, n - 1)
       IN  shorter \cup {Append(s, c) : s \in shorter, c \in A}

(***************************************************************************)
(* convert_case: boundaries (spec section 3, 4.1).                         *)
(***************************************************************************)
AllBoundaries ==
  {"Underscore", "Hyphen", "Space", "LowerUpper", "UpperLower",
   "DigitUpper", "UpperDigit", "DigitLower", "LowerDigit", "Acronym"}

\* The boundary set of a Converter that was given neither a source case nor
\* boundaries.  UpperLower is not part of it: auto-detection keeps "Var" and
\* "Name" whole in "myVarName" (main.rs lines 102-110).
DefaultBoundaries ==
  {"Underscore", "Hyphen", "Space", "LowerUpper",
   "DigitUpper", "UpperDigit", "DigitLower", "LowerDigit", "Acronym"}

\* a delimiter boundary fires on its character, which is consumed
DetectOne(b, c) ==
  \/ b = "Underscore" /\ c = "_"
  \/ b = "Hyphen" /\ c = "-"
  \/ b = "Space" /\ c = " "

\* a transition boundary fires between prev and next
DetectTwo(b, p, n) ==
  \/ b = "LowerUpper" /\ IsLower(p) /\ IsUpper(n)
  \/ b = "UpperLower" /\ IsUpper(p) /\ IsLower(n)
  \/ b = "DigitUpper" /\ IsDigit(p) /\ IsUpper(n)
  \/ b = "UpperDigit" /\ IsUpper(p) /\ IsDigit(n)
  \/ b = "DigitLower" /\ IsDigit(p) /\ IsLower(n)
  \/ b = "LowerDigit" /\ IsLower(p) /\ IsDigit(n)

\* Acronym: Upper, Upper, Lower; the boundary falls between the two Uppers
DetectThree(b, p, n, e) ==
  b = "Acronym" /\ IsUpper(p) /\ IsUpper(n) /\ IsLower(e)

\* What happens at character i of s: "consume" (a delimiter, cut and drop
\* it), "keep" (cut before it) or "none".
SplitPoint(s, B, i) ==
  IF \E b \in B : DetectOne(b, s[i]) THEN "consume"
  ELSE IF i > 1 /\ \E b \in B : DetectTwo(b, s[i - 1], s[i]) THEN "keep"
  ELSE IF i > 1 /\ i < Len(s) /\ \E b \in B : DetectThree(b, s[i - 1], s[i], s[i + 1])
       THEN "keep"
  ELSE "none"

RECURSIVE SplitFrom(_, _, _, _)
SplitFrom(s, B, i, word) ==
  IF i > Len(s) THEN <<word>>
  ELSE LET sp == SplitPoint(s, B, i)
       IN  IF sp = "none" THEN SplitFrom(s, B, i + 1, Append(word, s[i]))
           ELSE IF sp = "consume" THEN <<word>> \o SplitFrom(s, B, i + 1, <<>>)
           ELSE <<word>> \o SplitFrom(s, B, i + 1, <<s[i]>>)

\* detect: one scan, empty words dropped (a run of delimiters is one cut)
Split(s, B) == SelectSeq(SplitFrom(s, B, 1, <<>>), LAMBDA w : w # <<>>)

\* the boundaries a --boundaries string lists: those that fire somewhere
\* in it
ListFrom(s) ==
  {b \in AllBoundaries :
     \/ \E i \in DOMAIN s : DetectOne(b, s[i])
     \/ \E i \in DOMAIN s : i > 1 /\ DetectTwo(b, s[i - 1], s[i])
     \/ \E i \in DOMAIN s : i > 1 /\ i < Len(s) /\ DetectThree(b, s[i - 1], s[i], s[i + 1])}

(***************************************************************************)
(* convert_case: patterns and cases (spec section 3, 4.2).                 *)
(***************************************************************************)
Capitalize(w) ==
  [i \in DOMAIN w |-> IF i = 1 THEN ToUpperChar(w[i]) ELSE ToLowerChar(w[i])]

\* Alternating walks the joined character stream; only letters advance the
\* toggle.  n is the number of letters seen before the word.
LettersIn(s) == Cardinality({i \in DOMAIN s : IsUpper(s[i]) \/ IsLower(s[i])})

AlternateWord(w, n) ==
  [i \in DOMAIN w |->
     IF IsUpper(w[i]) \/ IsLower(w[i])
     THEN IF (n + LettersIn(SubSeq(w, 1, i - 1))) % 2 = 0
          THEN ToLowerChar(w[i]) ELSE ToUpperChar(w[i])
     ELSE w[i]]

Mutate(p, ws) ==
  [k \in DOMAIN ws |->
     CASE p = "Lower" -> ToLowerStr(ws[k])
       [] p = "Upper" -> ToUpperStr(ws[k])
       [] p = "Capital" -> Capitalize(ws[k])
       [] p = "Toggle" -> Capitalize(ws[k])
       [] p = "Sentence" -> IF k = 1 THEN Capitalize(ws[k]) ELSE ToLowerStr(ws[k])
       [] p = "Camel" -> IF k = 1 THEN ToLowerStr(ws[k]) ELSE Capitalize(ws[k])
       [] p = "Alternating" -> AlternateWord(ws[k], LettersIn(Flatten(SubSeq(ws, 1, k - 1))))]

CaseIds == {Cases[i].id : i \in DOMAIN Cases}
PatternIds == {Patterns[i].id : i \in DOMAIN Patterns}

CaseOf(id) == Cases[CHOOSE i \in DOMAIN Cases : Cases[i].id = id]

\* the boundaries a source case implies
CaseBoundaries(id) ==
  LET c == CaseOf(id)
  IN  IF c.delim = <<"_">> THEN {"Underscore"}
      ELSE IF c.delim = <<"-">> THEN {"Hyphen"}
      ELSE IF c.delim = <<" ">> THEN {"Space"}
      ELSE IF c.pattern \in {"Capital", "Camel"}
           THEN {"LowerUpper", "Acronym", "LowerDigit", "UpperDigit", "DigitLower", "DigitUpper"}
      ELSE {}

\* Converter::new()
NewConverter == [boundaries |-> DefaultBoundaries, pattern |-> <<>>, delim |-> <<>>]

\* Converter::convert: split, re-case by the pattern if there is one, join
ConverterConvert(cv, s) ==
  LET ws == Split(s, cv.boundaries)
  IN  IF cv.pattern # <<>> THEN Join(Mutate(cv.pattern[1], ws), cv.delim)
      ELSE Join(ws, cv.delim)

(***************************************************************************)
(* The argument parser ccase::build_app builds (spec sections 4.2, 6, 7).  *)
(***************************************************************************)
\* the option a flag token names, "" when the token is no flag
FlagOf(t) ==
  IF t \in {F_t, F_to} THEN "to"
  ELSE IF t \in {F_f, F_from} THEN "from"
  ELSE IF t \in {F_b, F_boundaries} THEN "boundaries"
  ELSE IF t \in {F_p, F_pattern} THEN "pattern"
  ELSE IF t \in {F_d, F_delimeter} THEN "delimeter"
  ELSE ""

DashDash == <<"-", "-">>

LongFlag(opt) == "--" \o opt

\* Case and pattern names resolve case-insensitively, by exact match.
ResolveCase(name) ==
  LET hit == {i \in DOMAIN Cases : Cases[i].name = ToLowerStr(name)}
  IN  IF hit = {} THEN <<>> ELSE <<Cases[CHOOSE i \in hit : TRUE].id>>

ResolvePattern(name) ==
  LET hit == {i \in DOMAIN Patterns : Patterns[i].name = ToLowerStr(name)}
  IN  IF hit = {} THEN <<>> ELSE <<Patterns[CHOOSE i \in hit : TRUE].id>>

\* a variant that also accepts a proper prefix of a canonical name
IsPrefix(p, s) == Len(p) <= Len(s) /\ SubSeq(s, 1, Len(p)) = p

ParseValueByPrefix(opt, v) ==
  IF opt \in {"to", "from"}
  THEN LET hit == {i \in DOMAIN Cases : v # <<>> /\ IsPrefix(ToLowerStr(v), Cases[i].name)}
       IN  IF hit = {} THEN <<>> ELSE <<Cases[CHOOSE i \in hit : TRUE].id>>
  ELSE IF opt = "pattern"
  THEN LET hit == {i \in DOMAIN Patterns : v # <<>> /\ IsPrefix(ToLowerStr(v), Patterns[i].name)}
       IN  IF hit = {} THEN <<>> ELSE <<Patterns[CHOOSE i \in hit : TRUE].id>>
  ELSE <<v>>

\* the value parser of an option: the typed value, or <<>> when invalid
ParseValue(opt, v) ==
  IF opt \in {"to", "from"} THEN ResolveCase(v)
  ELSE IF opt = "pattern" THEN ResolvePattern(v)
  ELSE <<v>>

NoError == [kind |-> "", flag |-> ""]
Failure(kind, flag) == [kind |-> kind, flag |-> flag]

EmptyMatches ==
  [to |-> <<>>, from |-> <<>>, boundaries |-> <<>>, pattern |-> <<>>,
   delimeter |-> <<>>, input |-> <<>>, escaped |-> FALSE, error |-> NoError]

\* One pass over the tokens after the program name.  A flag takes the next
\* token as its value; the value is parsed as it is met, so the first error
\* in token order is the one reported.  Every token after "--" is an input.
RECURSIVE ParseFrom(_, _, _)
ParseFrom(a, i, m) ==
  IF i > Len(a) THEN m
  ELSE IF m.escaped THEN ParseFrom(a, i + 1, [m EXCEPT !.input = Append(@, a[i])])
  ELSE IF a[i] = DashDash THEN ParseFrom(a, i + 1, [m EXCEPT !.escaped = TRUE])
  ELSE LET opt == FlagOf(a[i])
       IN  IF opt # ""
           THEN IF i = Len(a) THEN [m EXCEPT !.error = Failure("InvalidValue", LongFlag(opt))]
                ELSE IF m[opt] # <<>>
                     THEN [m EXCEPT !.error = Failure("ArgumentConflict", LongFlag(opt))]
                ELSE LET v == ParseValue(opt, a[i + 1])
                     IN  IF v = <<>>
                         THEN [m EXCEPT !.error = Failure("InvalidValue", LongFlag(opt))]
                         ELSE ParseFrom(a, i + 2, [m EXCEPT ![opt] = v])
           ELSE IF Len(a[i]) > 1 /\ a[i][1] = "-"
                THEN [m EXCEPT !.error = Failure("UnknownArgument", "")]
           ELSE ParseFrom(a, i + 1, [m EXCEPT !.input = Append(@, a[i])])

\* the rules checked once every token is read: help when no argument was
\* given at all, the exclusions, then the required target
Validate(a, m) ==
  IF m.error # NoError THEN m
  ELSE IF Len(a) = 1 THEN [m EXCEPT !.error = Failure("DisplayHelp", "")]
  ELSE IF m.from # <<>> /\ m.boundaries # <<>>
       THEN [m EXCEPT !.error = Failure("ArgumentConflict", "--from")]
  ELSE IF m.to # <<>> /\ (m.pattern # <<>> \/ m.delimeter # <<>>)
       THEN [m EXCEPT !.error = Failure("ArgumentConflict", "--to")]
  ELSE IF m.to = <<>> /\ m.pattern = <<>>
       THEN [m EXCEPT !.error = Failure("MissingRequiredArgument", "--to")]
  ELSE m

ParseArgs(a) == Validate(a, ParseFrom(a, 2, EmptyMatches))

(***************************************************************************)
(* The invocations checked: <<process arguments, whether standard input is  *)
(* a terminal, the content of standard input>>.                            *)
(***************************************************************************)
Cmd(flags, ins) == <<PROG>> \o flags \o ins

\* the invocations of the tests of main.rs (their standard input is no
\* terminal) and a few more
TestInvocations ==
  { <<Cmd(<<F_t, V_snake>>, <<S_myVarName>>), FALSE, <<>>>>,
    <<Cmd(<<F_to, V_kebab>>, <<S_myVarName>>), FALSE, <<>>>>,
    <<Cmd(<<F_to, V_kebab>>, <<S_my_Var_Name_sp>>), FALSE, <<>>>>,
    <<Cmd(<<F_to, V_snake>>, <<S_my_Var_Name_sp>>), FALSE, <<>>>>,
    <<Cmd(<<F_to, V_pascal>>, <<S_myVarName>>), FALSE, <<>>>>,
    <<Cmd(<<F_to, V_pascal>>, <<S_my_Var_Name_sp>>), FALSE, <<>>>>,
    <<Cmd(<<F_t, V_snake>>, <<S_HTTPServer>>), FALSE, <<>>>>,
    <<Cmd(<<F_t, V_snake>>, <<S_delimRuns>>), FALSE, <<>>>>,
    <<Cmd(<<F_f, V_snake, F_t, V_pascal>>, <<S_my_var_hy_name>>), FALSE, <<>>>>,
    <<Cmd(<<F_t, V_snake, F_from, V_pascal>>, <<S_myVar_hy_name>>), FALSE, <<>>>>,
    <<Cmd(<<F_t, V_snake, F_from, V_lower>>, <<S_my_sp_Var_hy_name>>), FALSE, <<>>>>,
    <<Cmd(<<>>, <<S_myvarname>>), FALSE, <<>>>>,
    <<Cmd(<<F_p, V_capital>>, <<S_MY_VAR_NAME>>), FALSE, <<>>>>,
    <<Cmd(<<F_p, V_Sentence>>, <<S_MY_VAR_NAME>>), FALSE, <<>>>>,
    <<Cmd(<<F_t, V_snake, F_p, V_capital>>, <<S_MY_VAR_NAME>>), FALSE, <<>>>>,
    <<Cmd(<<F_t, V_snake, F_d, V_hyphen>>, <<S_MY_VAR_NAME>>), FALSE, <<>>>>,
    <<Cmd(<<F_d, V_dot>>, <<S_myVarName>>), FALSE, <<>>>>,
    <<Cmd(<<F_p, V_sentence, F_d, V_dot>>, <<S_myVarName>>), FALSE, <<>>>>,
    <<Cmd(<<F_t, V_snake>>, <<>>), TRUE, <<>>>>,
    <<Cmd(<<>>, <<>>), FALSE, <<>>>>,
    <<Cmd(<<>>, <<>>), TRUE, <<>>>>,
    <<Cmd(<<F_t, V_SNAKE>>, <<S_myVarName>>), FALSE, <<>>>>,
    <<Cmd(<<F_t, V_SnAkE>>, <<S_myVarName>>), FALSE, <<>>>>,
    <<Cmd(<<F_t, V_snake, F_f, V_KEBab>>, <<S_my_hy_varName>>), FALSE, <<>>>>,
    <<Cmd(<<F_t, V_snake, F_f, V_KEBAB>>, <<S_my_hy_varName>>), FALSE, <<>>>>,
    <<Cmd(<<F_t, V_snake, F_f, V_kebab>>, <<S_my_hy_varName>>), FALSE, <<>>>>,
    <<Cmd(<<F_t, V_SNEK>>, <<S_myVarName>>), FALSE, <<>>>>,
    <<Cmd(<<F_t, V_snake, F_f, V_SNEK>>, <<S_my_hy_varName>>), FALSE, <<>>>>,
    <<Cmd(<<F_p, V_SENT>>, <<S_myVarName>>), FALSE, <<>>>>,
    <<Cmd(<<F_p, V_SENT, F_f, V_snake>>, <<S_my_hy_varName>>), FALSE, <<>>>>,
    <<Cmd(<<F_t, V_snake>>, << <<>> >>), FALSE, <<>>>>,
    <<Cmd(<<F_t, V_snake, F_b, V_aA>>, <<S_myVar_Name_Longer>>), FALSE, <<>>>>,
    <<Cmd(<<F_t, V_snake, F_b, V_hyphen>>, <<S_myVar_Name_Longer>>), FALSE, <<>>>>,
    <<Cmd(<<F_t, V_snake, F_b, V_underscore, F_f, V_kebab>>, <<S_myVar_Name_Longer>>), FALSE, <<>>>>,
    <<Cmd(<<F_t, V_snake>>, <<S_myVarName, S_anotherMultiWordToken>>), FALSE, <<>>>>,
    <<Cmd(<<F_t, V_snake>>, <<S_myVarName, <<>>, S_HTTPServer>>), TRUE, <<>>>>,
    <<Cmd(<<F_t, V_snake>>, <<>>), FALSE, S_myVarName>>,
    <<Cmd(<<F_t, V_snake>>, <<>>), FALSE, S_myVarName \o <<"\n">>>>,
    <<Cmd(<<F_t, V_snake>>, <<>>), FALSE, <<>>>>,
    <<Cmd(<<F_t, V_Pascal>>, <<>>), FALSE,
      S_myVarName \o <<"\n">> \o S_anotherMultiWordToken \o <<"\n">>>>,
    <<Cmd(<<F_t, V_snake>>, <<S_HTTPServer>>), FALSE,
      S_my_Var_Name_sp \o <<" ", "\n", "\n">> \o S_myVarName>>,
    <<Cmd(<<F_t, V_snake>>, <<S_myVarName>>), TRUE, S_myvarname \o <<"\n">>>>,
    <<Cmd(<<>>, <<S_myVarName>>), FALSE, F_t \o <<"\n">> \o V_kebab \o <<"\n">>>>,
    <<Cmd(<<F_t, V_snake>>, <<S_myVarName>>), FALSE, F_p \o <<"\n">>>>
  }

\* the characters of the exhaustively enumerated inputs: letters of both
\* cases, a digit and the three delimiters
InputAlphabet == {"a", "b", "A", "1", "_", "-", " "}

InputStrings == StringsUpTo(InputAlphabet, MaxLen)

\* an input that starts with a hyphen is passed after "--"
Positional(s) == IF Len(s) > 1 /\ s[1] = "-" THEN <<DashDash, s>> ELSE <<s>>

CaseNames == {Cases[i].name : i \in DOMAIN Cases}
PatternNames == {Patterns[i].name : i \in DOMAIN Patterns}

SourceFlags ==
  {<<>>} \cup {<<F_from, c>> : c \in CaseNames}
         \cup {<<F_boundaries, b>> : b \in {V_aA, V_hyphen, V_underscore}}

TargetFlags ==
  {<<F_to, c>> : c \in CaseNames}
    \cup {<<F_pattern, p>> : p \in PatternNames}
    \cup {<<F_pattern, p, F_delimeter, d>> : p \in PatternNames, d \in {V_dot, V_underscore}}

\* the configurations every enumerated input is converted under
EnumeratedFlags ==
  {<<F_to, c>> : c \in CaseNames}
    \cup {<<F_from, c, F_to, V_snake>> : c \in {V_snake, V_kebab, V_lower, V_pascal}}
    \cup {<<F_from, V_snake, F_to, V_pascal>>}
    \cup {<<F_boundaries, b, F_to, V_snake>> : b \in {V_aA, V_hyphen}}
    \cup {<<F_pattern, p>> : p \in {V_capital, V_sentence}}
    \cup {<<F_pattern, p, F_delimeter, V_dot>> : p \in {V_capital, V_sentence}}

Invocations ==
  TestInvocations
    \cup {<<Cmd(f, Positional(s)), FALSE, <<>>>> : f \in EnumeratedFlags, s \in InputStrings}
    \cup {<<Cmd(src \o tgt, << <<>> >>), FALSE, <<>>>> : src \in SourceFlags, tgt \in TargetFlags}

(***************************************************************************)
(* main.rs                                                                 *)
(***************************************************************************)
WhiteSpace == {" ", "\t", "\r", "\n"}

\* str::trim_end
RECURSIVE TrimEnd(_)
TrimEnd(s) ==
  IF s # <<>> /\ s[Len(s)] \in WhiteSpace THEN TrimEnd(SubSeq(s, 1, Len(s) - 1)) ELSE s

\* str::lines: split at "\n"; a final line needs no terminator, and nothing
\* follows a trailing "\n"
RECURSIVE LinesFrom(_, _, _)
LinesFrom(s, i, line) ==
  IF i > Len(s) THEN (IF line = <<>> THEN <<>> ELSE <<line>>)
  ELSE IF s[i] = "\n" THEN <<line>> \o LinesFrom(s, i + 1, <<>>)
  ELSE LinesFrom(s, i + 1, Append(line, s[i]))

Lines(s) == LinesFrom(s, 1, <<>>)

\* get_args_with_stdin: the process arguments, then, when standard input is
\* not a terminal and not empty, every line of it with its end trimmed
GetArgsWithStdinResult(av, tty, data) ==
  IF ~tty /\ data # <<>>
  THEN av \o [k \in DOMAIN Lines(data) |-> TrimEnd(Lines(data)[k])]
  ELSE av

\* Variants of the source-mode selection, used to test that the properties
\* below depend on it: --from not looked at; a missing --boundaries read as
\* an empty boundary list; every boundary active when neither is given.
SourceBoundariesIgnoringFrom(m) ==
  IF m.boundaries # <<>> THEN ListFrom(m.boundaries[1])
  ELSE NewConverter.boundaries

SourceBoundariesNoDefault(m) ==
  IF m.from # <<>> THEN CaseBoundaries(m.from[1])
  ELSE IF m.boundaries # <<>> THEN ListFrom(m.boundaries[1])
  ELSE ListFrom(<<>>)

SourceBoundariesAllByDefault(m) ==
  IF m.from # <<>> THEN CaseBoundaries(m.from[1])
  ELSE IF m.boundaries # <<>> THEN ListFrom(m.boundaries[1])
  ELSE AllBoundaries

\* convert, lines 64-73: the source mode
SourceBoundaries(m) ==
  IF m.from # <<>> THEN CaseBoundaries(m.from[1])
  ELSE IF m.boundaries # <<>> THEN ListFrom(m.boundaries[1])
  ELSE NewConverter.boundaries

\* convert, lines 75-86: the target mode
TargetPattern(m) ==
  IF m.to # <<>> THEN <<CaseOf(m.to[1]).pattern>>
  ELSE IF m.pattern # <<>> THEN m.pattern
  ELSE NewConverter.pattern

\* a variant that never looks at --delimeter
TargetDelimIgnoringFlag(m) ==
  IF m.to # <<>> THEN CaseOf(m.to[1]).delim
  ELSE NewConverter.delim

TargetDelim(m) ==
  IF m.to # <<>> THEN CaseOf(m.to[1]).delim
  ELSE IF m.pattern # <<>> /\ m.delimeter # <<>> THEN m.delimeter[1]
  ELSE NewConverter.delim

\* the Converter convert builds for one input
BuildConverter(m) ==
  [boundaries |-> SourceBoundaries(m), pattern |-> TargetPattern(m), delim |-> TargetDelim(m)]

\* convert, line 88: print!("{}", ...) writes the string and nothing else
PrintOut(out, s) == out \o s

Init ==
  /\ \E inv \in Invocations :
       /\ argv = inv[1]
       /\ stdinTty = inv[2]
       /\ stdinData = inv[3]
  /\ pc = "start"
  /\ args = <<>>
  /\ matches = EmptyMatches
  /\ inputs = <<>>
  /\ idx = 1
  /\ conv = NewConverter
  /\ words = <<>>
  /\ result = <<>>
  /\ stdout = <<>>
  /\ stderr = NoError
  /\ exit = -1

\* main, line 15
GetArgsWithStdin ==
  /\ pc = "start"
  /\ args' = GetArgsWithStdinResult(argv, stdinTty, stdinData)
  /\ pc' = "parse"
  /\ UNCHANGED <<argv, stdinTty, stdinData, matches, inputs, idx, conv, words,
                 result, stdout, stderr, exit>>

\* main, line 17: get_matches_from returns the matches of valid arguments
GetMatches ==
  /\ pc = "parse"
  /\ ParseArgs(args).error = NoError
  /\ matches' = ParseArgs(args)
  /\ pc' = "inputs"
  /\ UNCHANGED <<argv, stdinTty, stdinData, args, inputs, idx, conv, words,
                 result, stdout, stderr, exit>>

\* a variant in which the error is reported and the run goes on with what
\* was parsed
GetMatchesReportOnly ==
  /\ pc = "parse"
  /\ ParseArgs(args).error # NoError
  /\ stderr' = ParseArgs(args).error
  /\ matches' = ParseArgs(args)
  /\ pc' = "inputs"
  /\ UNCHANGED <<argv, stdinTty, stdinData, args, inputs, idx, conv, words,
                 result, stdout, exit>>

\* main, line 17: get_matches_from reports invalid arguments and exits
GetMatchesExit ==
  /\ pc = "parse"
  /\ ParseArgs(args).error # NoError
  /\ stderr' = ParseArgs(args).error
  /\ exit' = 2
  /\ pc' = "exited"
  /\ UNCHANGED <<argv, stdinTty, stdinData, args, matches, inputs, idx, conv,
                 words, result, stdout>>

\* main, lines 19-28: the inputs, none at all being fine when standard
\* input is not a terminal
GetInputs ==
  /\ pc = "inputs"
  /\ matches.input # <<>> \/ ~stdinTty
  /\ inputs' = matches.input
  /\ pc' = "convert"
  /\ UNCHANGED <<argv, stdinTty, stdinData, args, matches, idx, conv, words,
                 result, stdout, stderr, exit>>

\* main, line 24: missing_error.exit()
MissingInputExit ==
  /\ pc = "inputs"
  /\ matches.input = <<>> /\ stdinTty
  /\ stderr' = Failure("MissingRequiredArgument", "<input>")
  /\ exit' = 2
  /\ pc' = "exited"
  /\ UNCHANGED <<argv, stdinTty, stdinData, args, matches, inputs, idx, conv,
                 words, result, stdout>>

\* main, line 36: convert(&matches, input) for the next input
Convert ==
  /\ pc = "convert"
  /\ idx <= Len(inputs)
  /\ conv' = BuildConverter(matches)
  /\ words' = Split(inputs[idx], conv'.boundaries)
  /\ result' = ConverterConvert(conv', inputs[idx])
  /\ stdout' = PrintOut(stdout, result')
  /\ idx' = idx + 1
  /\ UNCHANGED <<argv, stdinTty, stdinData, pc, args, matches, inputs, stderr, exit>>

\* main returns once every input is converted
Return ==
  /\ pc = "convert"
  /\ idx > Len(inputs)
  /\ exit' = 0
  /\ pc' = "done"
  /\ UNCHANGED <<argv, stdinTty, stdinData, args, matches, inputs, idx, conv,
                 words, result, stdout, stderr>>

Next ==
  \/ GetArgsWithStdin
  \/ GetMatches
  \/ GetMatchesExit
  \/ GetInputs
  \/ MissingInputExit
  \/ Convert
  \/ Return

Spec == Init /\ [][Next]_vars

(***************************************************************************)
(* Properties.                                                             *)
(***************************************************************************)
\* convert has run at least once; LastInput is the input it ran on last
Converted == idx > 1
LastInput == inputs[idx - 1]

AutoMode == matches.from = <<>> /\ matches.boundaries = <<>>

\* C1: after a run with a valid configuration and inputs i1..in (n >= 1),
\* standard output is convert(i1) "\n" ... convert(in) "\n": one
\* newline-terminated line per input, in input order, and nothing else.
C1_OutputIsOneLinePerInput ==
  (pc = "done" /\ Len(inputs) >= 1) =>
     stdout = Flatten([k \in DOMAIN inputs |->
                         ConverterConvert(BuildConverter(matches), inputs[k]) \o <<"\n">>])

\* the positions of the argument tokens that precede any "--"
OptionPositions == {i \in 2..Len(args) : \A j \in 2..i : args[j] # DashDash}

\* the flags named by the arguments, read off the tokens
FlagsGiven == {FlagOf(args[i]) : i \in OptionPositions} \ {""}

\* the value tokens given to an option
ValuesGiven(opt) ==
  {args[i + 1] : i \in {j \in OptionPositions : j < Len(args) /\ FlagOf(args[j]) = opt}}

UnknownName ==
  \/ \E v \in ValuesGiven("to") \cup ValuesGiven("from") : ToLowerStr(v) \notin CaseNames
  \/ \E v \in ValuesGiven("pattern") : ToLowerStr(v) \notin PatternNames

InvalidConfiguration ==
  \/ UnknownName
  \/ {"from", "boundaries"} \subseteq FlagsGiven
  \/ "to" \in FlagsGiven /\ FlagsGiven \cap {"pattern", "delimeter"} # {}
  \/ FlagsGiven \cap {"to", "pattern"} = {}

\* C2: validation is all-or-nothing and precedes every conversion.  When the
\* arguments name an unknown case or pattern, combine --from with
\* --boundaries, combine --to with --pattern or --delimeter, or give no
\* target, the invocation fails, convert is never called and standard output
\* stays empty; whenever convert has run, exactly one of to/pattern is set
\* and from and boundaries are not both set.
C2_ValidationBeforeConversion ==
  /\ (pc \notin {"start", "parse"} /\ InvalidConfiguration) =>
        (pc = "exited" /\ exit = 2 /\ ~Converted /\ stdout = <<>>)
  /\ Converted =>
        /\ (matches.to # <<>>) # (matches.pattern # <<>>)
        /\ ~(matches.from # <<>> /\ matches.boundaries # <<>>)

C2_Witness ==
  /\ pc = "exited"
  /\ argv = Cmd(<<F_t, V_snake, F_p, V_capital>>, <<S_MY_VAR_NAME>>)
  /\ stderr = Failure("ArgumentConflict", "--to")
  /\ stdout = <<>>

\* C3: every line of standard input becomes exactly one input (its end
\* trimmed), converted like a positional input and output after the
\* positional inputs: p positional inputs and k lines give p + k output
\* lines; empty standard input adds no input and the run succeeds with empty
\* output.
C3_StdinLinesAreInputs ==
  (pc = "done" /\ ~stdinTty) =>
     LET lines == Lines(stdinData)
         positional == ParseFrom(argv, 2, EmptyMatches).input
     IN  /\ inputs = positional \o [k \in DOMAIN lines |-> TrimEnd(lines[k])]
         /\ Count("\n", stdout) = Len(positional) + Len(lines)
         /\ stdinData = <<>> /\ positional = <<>> => stdout = <<>>

\* C10: converting the empty string under any valid configuration yields the
\* empty string, so an empty positional input produces exactly one empty
\* output line; once the configuration is valid no conversion fails.
C10_EmptyStringLine ==
  /\ (Converted /\ LastInput = <<>>) => result = <<>>
  /\ (pc = "done" /\ inputs = << <<>> >>) => stdout = <<"\n">>
  /\ pc \in {"convert", "done"} => exit \in {-1, 0}

\* the boundary a delimiter character belongs to
DelimBoundary(c) == IF c = "_" THEN "Underscore" ELSE IF c = "-" THEN "Hyphen" ELSE "Space"

\* the boundary set the source mode of the matches asks for
ActiveBoundaries ==
  IF matches.from # <<>> THEN CaseBoundaries(matches.from[1])
  ELSE IF matches.boundaries # <<>> THEN ListFrom(matches.boundaries[1])
  ELSE DefaultBoundaries

\* the positions of s at which a boundary of B fires
FiringPositions(s, B) ==
  {i \in DOMAIN s :
     \/ \E b \in B : DetectOne(b, s[i])
     \/ i > 1 /\ \E b \in B : DetectTwo(b, s[i - 1], s[i])
     \/ i > 1 /\ i < Len(s) /\ \E b \in B : DetectThree(b, s[i - 1], s[i], s[i + 1])}

\* C4: the source mode fixes the active boundary set exactly (--from C: the
\* boundaries of C; --boundaries B: those listed in B; neither: the default
\* set).  A position where no active boundary fires is never a cut, so the
\* delimiter characters of inactive boundaries stay inside their word, and
\* those of active boundaries are in no word.
C4_SourceModeFixesBoundaries ==
  Converted =>
    /\ conv.boundaries = ActiveBoundaries
    /\ Len(words) <= 1 + Cardinality(FiringPositions(LastInput, ActiveBoundaries))
    /\ \A c \in DelimSet :
         Count(c, Flatten(words)) =
           IF DelimBoundary(c) \in ActiveBoundaries THEN 0 ELSE Count(c, LastInput)
    /\ (matches.from = <<"snake">> /\ matches.to = <<"pascal">> /\ LastInput = S_my_var_hy_name)
          => result = O_MyVar_hy_name
    /\ (matches.boundaries = <<V_aA>> /\ matches.to = <<"snake">> /\ LastInput = S_myVar_Name_Longer)
          => (conv.boundaries = {"LowerUpper"} /\ result = O_my_var_hy_name_hy_longer)
    /\ (matches.boundaries = <<V_hyphen>> /\ matches.to = <<"snake">> /\ LastInput = S_myVar_Name_Longer)
          => (conv.boundaries = {"Hyphen"} /\ result = O_myvar_name_longer)

C4_Witness ==
  /\ pc = "done"
  /\ matches.from = <<"snake">>
  /\ matches.to = <<"pascal">>
  /\ inputs = <<S_my_var_hy_name>>
  /\ words = << <<"m", "y">>, <<"v", "a", "r", "-", "n", "a", "m", "e">> >>
  /\ result = O_MyVar_hy_name

\* the characters C5 speaks of
AutoChars == LowerSet \cup UpperSet \cup DigitSet \cup DelimSet

StripDelims(s) == SelectSeq(s, LAMBDA c : c \notin DelimSet)

\* the starts of the maximal delimiter-free runs of s
RunStarts(s) == {i \in DOMAIN s : s[i] \notin DelimSet /\ (i = 1 \/ s[i - 1] \in DelimSet)}

\* the positions inside a delimiter-free run at which a case or digit
\* transition of the default set cuts
TransitionCuts(s) ==
  {i \in DOMAIN s : i > 1 /\ s[i] \notin DelimSet /\ s[i - 1] \notin DelimSet
                     /\ SplitPoint(s, DefaultBoundaries, i) = "keep"}

\* C5: under auto-detection, for an input of letters, digits and the
\* delimiters "_", "-", " ": no word is empty, no word holds a delimiter, a
\* run of delimiters is a single cut (the words are the delimiter-free runs,
\* cut further only at case and digit transitions), and the words
\* concatenated are the input without its delimiters; "myVarName" and
\* "my Var Name" both give my, Var, Name.
C5_AutoDetection ==
  (Converted /\ AutoMode /\ \A i \in DOMAIN LastInput : LastInput[i] \in AutoChars) =>
    /\ \A k \in DOMAIN words : words[k] # <<>> /\ \A c \in DelimSet : Count(c, words[k]) = 0
    /\ Flatten(words) = StripDelims(LastInput)
    /\ Len(words) = Cardinality(RunStarts(LastInput)) + Cardinality(TransitionCuts(LastInput))
    /\ LastInput \in {S_myVarName, S_my_Var_Name_sp, S_delimRuns} =>
         /\ words = <<W_my, W_Var, W_Name>>
         /\ matches.to = <<"snake">> => result = O_my_var_name
         /\ matches.to = <<"kebab">> => result = O_my_hy_var_hy_name
         /\ matches.to = <<"pascal">> => result = O_MyVarName

C5_Witness ==
  /\ Converted
  /\ AutoMode
  /\ LastInput = S_delimRuns
  /\ words = <<W_my, W_Var, W_Name>>
  /\ result = O_my_var_name

\* the positions of s at which a word of ws starts, the words being laid
\* over s from position i on, delimiters skipped
RECURSIVE WordStarts(_, _, _)
WordStarts(s, ws, i) ==
  IF ws = <<>> \/ i > Len(s) THEN {}
  ELSE IF s[i] \in DelimSet THEN WordStarts(s, ws, i + 1)
  ELSE {i} \cup WordStarts(s, Tail(ws), i + Len(Head(ws)))

\* C6: under auto-detection, for every run of two or more uppercase letters
\* s[i..j] followed by a lowercase letter, the only cut inside or at the end
\* of the run is the one between its last two uppercase letters: a word
\* starts at j, none at i+1..j-1 and none at j+1.  "HTTPServer" is HTTP,
\* Server and renders to snake as "http_server".
C6_AcronymPrecedence ==
  (Converted /\ AutoMode) =>
    LET s == LastInput
        starts == WordStarts(s, words, 1)
    IN  /\ \A i, j \in DOMAIN s :
             (i < j /\ j < Len(s) /\ (\A k \in i..j : IsUpper(s[k])) /\ IsLower(s[j + 1])) =>
                (j \in starts /\ \A k \in (i + 1)..(j + 1) : k # j => k \notin starts)
        /\ s = S_HTTPServer =>
             (words = <<W_HTTP, W_Server>> /\ (matches.to = <<"snake">> => result = O_http_server))

C6_Witness ==
  /\ Converted
  /\ AutoMode
  /\ LastInput = S_HTTPServer
  /\ words = <<W_HTTP, W_Server>>
  /\ matches.to = <<"snake">>
  /\ result = O_http_server

\* r is w Capital-cased: the first character uppercased, the rest lowercased
IsCapitalOf(r, w) ==
  /\ Len(r) = Len(w)
  /\ \A i \in DOMAIN w : r[i] = IF i = 1 THEN ToUpperChar(w[i]) ELSE ToLowerChar(w[i])

\* the result cut back into the words it was joined from: piece k has the
\* length of word k and pieces are d apart
RECURSIVE Pieces(_, _, _)
Pieces(r, ws, d) ==
  IF ws = <<>> THEN <<>>
  ELSE <<SubSeq(r, 1, Len(Head(ws)))>>
         \o Pieces(SubSeq(r, Len(Head(ws)) + Len(d) + 1, Len(r)), Tail(ws), d)

\* C7: with --pattern P and no --to the output is the detected words, each
\* re-cased by P according to its index, joined by the --delimeter string or
\* by the empty string when there is none: Sentence capital-cases the first
\* word and lowercases the later ones, Capital capital-cases every word.
C7_PatternAndDelimiter ==
  (Converted /\ matches.to = <<>> /\ matches.pattern # <<>>) =>
    LET d == IF matches.delimeter # <<>> THEN matches.delimeter[1] ELSE <<>>
        ps == Pieces(result, words, d)
        total == Len(Flatten(words)) + (IF words = <<>> THEN 0 ELSE (Len(words) - 1) * Len(d))
    IN  /\ Len(result) = total
        /\ result = Join(ps, d)
        /\ matches.pattern = <<"Capital">> =>
             \A k \in DOMAIN words : IsCapitalOf(ps[k], words[k])
        /\ matches.pattern = <<"Sentence">> =>
             \A k \in DOMAIN words :
                IF k = 1 THEN IsCapitalOf(ps[k], words[k]) ELSE ps[k] = ToLowerStr(words[k])
        /\ (LastInput = S_MY_VAR_NAME /\ matches.delimeter = <<>>) =>
             /\ matches.pattern = <<"Capital">> => result = O_MyVarName
             /\ matches.pattern = <<"Sentence">> => result = O_Myvarname
        /\ (LastInput = S_myVarName /\ matches.pattern = <<"Sentence">>
              /\ matches.delimeter = <<V_dot>>) => result = O_My_dot_var_dot_name

C7_Witness ==
  /\ pc = "done"
  /\ matches.pattern = <<"Sentence">>
  /\ matches.delimeter = <<V_dot>>
  /\ inputs = <<S_myVarName>>
  /\ result = O_My_dot_var_dot_name

\* the options whose value is a name, and the canonical names of each
NamedOptions == {"to", "from", "pattern"}
CanonicalNames(opt) == IF opt = "pattern" THEN PatternNames ELSE CaseNames

\* the canonical name of a resolved value
NameOfValue(opt, id) ==
  IF opt = "pattern" THEN Patterns[CHOOSE i \in DOMAIN Patterns : Patterns[i].id = id].name
  ELSE CaseOf(id).name

\* an option was given a name that is no canonical name in any letter case
BadName(opt) == \E v \in ValuesGiven(opt) : ToLowerStr(v) \notin CanonicalNames(opt)

\* the arguments with every case and pattern name spelled in lower case
LowerSpelled ==
  [i \in DOMAIN args |->
     IF (i - 1) \in OptionPositions /\ FlagOf(args[i - 1]) \in NamedOptions
     THEN ToLowerStr(args[i]) ELSE args[i]]

\* C8: case and pattern names resolve case-insensitively and only by exact
\* match.  A resolved value is the entry whose canonical name is the
\* lowercased name given; every spelling of a name gives the configuration
\* (or the error) its lowercase spelling gives; any other string, a proper
\* prefix ("SENT") or a near miss ("SNEK") included, is rejected with an
\* invalid-value error naming the flag it was given to.
C8_NameResolution ==
  pc \notin {"start", "parse"} =>
    /\ (\E opt \in NamedOptions : BadName(opt)) =>
          /\ pc = "exited"
          /\ stderr.kind = "InvalidValue"
          /\ \E opt \in NamedOptions : BadName(opt) /\ stderr.flag = LongFlag(opt)
    /\ pc # "exited" =>
          /\ matches = ParseArgs(LowerSpelled)
          /\ \A opt \in NamedOptions : ValuesGiven(opt) # {} =>
                \E v \in ValuesGiven(opt) :
                   matches[opt] # <<>> /\ NameOfValue(opt, matches[opt][1]) = ToLowerStr(v)
    /\ pc = "exited" /\ stderr.flag # "<input>" => stderr = ParseArgs(LowerSpelled).error

C8_Witness ==
  /\ pc = "done"
  /\ argv = Cmd(<<F_t, V_SnAkE>>, <<S_myVarName>>)
  /\ matches.to = <<"snake">>
  /\ result = O_my_var_name

\* the last result converted once more, from the target case to itself
Reconverted == ConverterConvert(BuildConverter([matches EXCEPT !.from = matches.to]), result)

\* C9 as claimed: for every canonical case C and every input, converting to C
\* with auto-detection and converting the result from C to C gives the same
\* string.
C9_IdempotentEveryCase ==
  (Converted /\ AutoMode /\ matches.to # <<>>) => Reconverted = result

\* C9, amended: the same for every canonical case other than pascal and
\* camel, the two cases that join capitalised words with the empty
\* delimiter.
C9_IdempotentExceptPascalCamel ==
  (Converted /\ AutoMode /\ matches.to # <<>> /\ matches.to[1] \notin {"pascal", "camel"}) =>
     Reconverted = result

C9_Witness ==
  /\ Converted
  /\ AutoMode
  /\ matches.to = <<"title">>
  /\ LastInput = <<"a", "A">>
  /\ result = <<"A", " ", "A">>
  /\ Reconverted = result
=============================================================================
